---- MODULE Spec2Model ----
(***************************************************************************)
(* Model of globalwi.c: a Who-Is discovery client.  main() initialises the *)
(* handlers, the address cache and the datalink, broadcasts one Who-Is,    *)
(* polls the datalink until an Abort/Reject was seen or the accumulated    *)
(* whole-second time exceeds the APDU timeout, then scans the address      *)
(* cache and prints the device ids found.                                  *)
(***************************************************************************)
EXTENDS Integers, Sequences, FiniteSets

(* ------------------------------ bounds --------------------------------- *)
\* slots of the address cache (config.h sets 255; scaled down here)
MAX_ADDRESS_CACHE == 2
\* largest value time(NULL) returns
MaxClock == 3
\* datagrams the transport delivers in one session: enough to overfill the cache
MaxEvents == MAX_ADDRESS_CACHE + 1
\* the ghost counter of receive calls saturates here
MaxPolls == 3

\* the value time(NULL) returns before the broadcast
StartClocks == {1}
\* values of apdu_timeout(), in milliseconds
ApduTimeouts == {0, 1999}

(* ------------------------------ inputs --------------------------------- *)
\* one more device than the cache has slots
DeviceIds == {10 * n : n \in 1..(MAX_ADDRESS_CACHE + 1)}
\* (mac, max_apdu) pairs a device may announce: every device has the first,
\* device 10 also announces itself from the second
Addrs(d) == IF d = 10 THEN {<<1, 50>>, <<2, 480>>} ELSE {<<1, 50>>}

Event(kind, id, mac, apdu) ==
    [kind |-> kind, device_id |-> id, mac |-> mac, max_apdu |-> apdu]

IAmEvents == UNION {{Event("IAm", d, a[1], a[2]) : a \in Addrs(d)} : d \in DeviceIds}
Events == IAmEvents \cup
          {Event(kd, 0, 0, 0) :
              kd \in {"Abort", "Reject", "Unrec", "ReadProp", "Other"}}

(* ------------------------------ state ---------------------------------- *)
VARIABLES
    pc,               \* position in main()
    apdu_timeout_ms,  \* what apdu_timeout() returns
    timeout_seconds, last_seconds, current_seconds, total_seconds,
    Error_Detected,   \* static bool Error_Detected
    Address_Cache,    \* the address cache, slot -> entry
    whois_sent,       \* number of Send_WhoIs calls
    i, k, l,          \* loop indices of the reporter
    device_id_array,  \* the reporter's array
    out,              \* lines written to stdout
    exit_status,      \* -1 while the process runs
    session,          \* Running, TimedOut or Aborted: which break left the loop
    bbmd_registered,  \* Init_DataLink registered with a BBMD (and said so)
    Rx_Buf,           \* static uint8_t Rx_Buf[MAX_MPDU]: the datagram last received
    pdu_len,          \* what the last datalink_receive returned (0: nothing)
    delivered,        \* history: datagrams handed to npdu_handler so far
    received,         \* history: number of datagrams datalink_receive returned
    start_seconds,    \* history: the timestamp taken before the broadcast
    polls             \* history: datalink_receive calls so far (saturating)

vars == <<pc, apdu_timeout_ms, timeout_seconds, last_seconds, current_seconds,
          total_seconds, Error_Detected, Address_Cache, whois_sent, i, k, l,
          device_id_array, out, exit_status, session, bbmd_registered,
          Rx_Buf, pdu_len,
          delivered, received, start_seconds, polls>>

timevars == <<timeout_seconds, last_seconds, current_seconds, total_seconds>>
reportvars == <<i, k, l, device_id_array, out>>
histvars == <<delivered, received, start_seconds, polls>>
rxvars == <<Rx_Buf, pdu_len>>

Slots == 0..(MAX_ADDRESS_CACHE - 1)
NoEntry == [valid |-> FALSE, device_id |-> 0, mac |-> 0, max_apdu |-> 0]
\* an array element that was never written
Unset == -1
\* the line Init_DataLink prints when it registers with a BBMD
BbmdLine == "WhoIs: Registering with BBMD"
\* the receive buffer before anything was received: all zero
NoDatagram == Event("None", 0, 0, 0)

(* --------------------------- address cache ----------------------------- *)
address_init == [s \in Slots |-> NoEntry]

FreeSlots(cache) == {s \in Slots : ~cache[s].valid}

MinOf(S) == CHOOSE x \in S : \A y \in S : x <= y

address_add_overwrite(cache, id, apdu, mac) ==
    IF \E s \in Slots : cache[s].valid /\ cache[s].device_id = id
    THEN LET s == CHOOSE t \in Slots : cache[t].valid /\ cache[t].device_id = id
         IN [cache EXCEPT ![s] = [valid |-> TRUE, device_id |-> id,
                                  mac |-> mac, max_apdu |-> apdu]]
    ELSE IF FreeSlots(cache) # {}
    THEN [cache EXCEPT ![MinOf(FreeSlots(cache))] =
              [valid |-> TRUE, device_id |-> id, mac |-> mac, max_apdu |-> apdu]]
    ELSE cache

address_add_evict(cache, id, apdu, mac) ==
    IF \E s \in Slots : cache[s].valid /\ cache[s].device_id = id
    THEN cache
    ELSE LET s == IF FreeSlots(cache) # {} THEN MinOf(FreeSlots(cache)) ELSE 0
         IN [cache EXCEPT ![s] = [valid |-> TRUE, device_id |-> id,
                                  mac |-> mac, max_apdu |-> apdu]]

\* insert_if_absent: a new entry in the first free slot; nothing when the
\* device is already present or no slot is free
address_add(cache, id, apdu, mac) ==
    IF \E s \in Slots : cache[s].valid /\ cache[s].device_id = id
    THEN cache
    ELSE IF FreeSlots(cache) # {}
    THEN [cache EXCEPT ![MinOf(FreeSlots(cache))] =
              [valid |-> TRUE, device_id |-> id, mac |-> mac, max_apdu |-> apdu]]
    ELSE cache

address_get_by_index(cache, idx) == cache[idx].valid

(* ------------------------------ handlers ------------------------------- *)
MyAbortHandler_noflag(err) == err

MyAbortHandler(err) == TRUE

MyRejectHandler(err) == TRUE

Init_Service_Handlers_other_adds ==
    [Unrec |-> "handler_unrecognized_service", IAm |-> "handler_i_am_add",
     Abort |-> "MyAbortHandler", Reject |-> "MyRejectHandler",
     ReadProp |-> "handler_read_property",
     Other |-> "handler_i_am_add"]

Init_Service_Handlers_unrec_rejects ==
    [Unrec |-> "MyRejectHandler", IAm |-> "handler_i_am_add",
     Abort |-> "MyAbortHandler", Reject |-> "MyRejectHandler",
     ReadProp |-> "handler_read_property",
     Other |-> "none"]

\* the handler registered for each kind of decoded event: unrecognized
\* service, confirmed ReadProperty, unconfirmed I-Am, abort and reject; any
\* other service has none
Init_Service_Handlers ==
    [Unrec |-> "handler_unrecognized_service", IAm |-> "handler_i_am_add",
     Abort |-> "MyAbortHandler", Reject |-> "MyRejectHandler",
     ReadProp |-> "handler_read_property",
     Other |-> "none"]

\* npdu_handler: decode the datagram and call the registered handler.
\* handler_unrecognized_service and handler_read_property answer the peer;
\* they touch neither the address cache nor the file-static Error_Detected
npdu_handler(cache, err, ev) ==
    LET h == Init_Service_Handlers[ev.kind] IN
    [cache |-> IF h = "handler_i_am_add"
               THEN address_add(cache, ev.device_id, ev.max_apdu, ev.mac)
               ELSE cache,
     err |-> IF h = "MyAbortHandler" THEN MyAbortHandler(err)
             ELSE IF h = "MyRejectHandler" THEN MyRejectHandler(err)
             ELSE err]

(* ------------------------------- main ---------------------------------- *)
Init ==
    /\ pc = "setup"
    /\ apdu_timeout_ms \in ApduTimeouts
    /\ timeout_seconds = 0
    /\ last_seconds = 0
    /\ current_seconds = 0
    /\ total_seconds = 0
    /\ Error_Detected = FALSE
    /\ Address_Cache = [s \in Slots |-> NoEntry]
    /\ whois_sent = 0
    /\ i = 0 /\ k = 0 /\ l = 0
    /\ device_id_array = [s \in Slots |-> Unset]
    /\ out = <<>>
    /\ exit_status = -1
    /\ session = "Running"
    /\ bbmd_registered = FALSE
    /\ Rx_Buf = NoDatagram
    /\ pdu_len = 0
    /\ delivered = <<>>
    /\ received = 0
    /\ start_seconds = 0
    /\ polls = 0

\* lines 269-272: handlers, address_init, Init_DataLink.  Init_DataLink
\* (162-254) exits with 1 when datalink_init fails (223-225); otherwise, in
\* a build with BACDL_BIP and BBMD_ENABLED and with BACNET_BBMD_ADDRESS
\* resolving, it registers with the BBMD and prints a line (241-252)
Setup ==
    /\ pc = "setup"
    /\ Address_Cache' = address_init
    /\ \E ok \in BOOLEAN, bbmd \in BOOLEAN :
         IF ok
         THEN /\ pc' = "configure"
              /\ exit_status' = exit_status
              /\ bbmd_registered' = bbmd
              /\ out' = IF bbmd THEN Append(out, BbmdLine) ELSE out
         ELSE /\ pc' = "exit1"
              /\ exit_status' = 1
              /\ UNCHANGED <<bbmd_registered, out>>
    /\ UNCHANGED <<apdu_timeout_ms, timevars, Error_Detected, whois_sent,
                   i, k, l, device_id_array, session, histvars, rxvars>>

\* lines 274-277: first timestamp, timeout in seconds, the broadcast
Configure ==
    /\ pc = "configure"
    /\ \E t \in StartClocks : last_seconds' = t /\ start_seconds' = t
    /\ timeout_seconds' = apdu_timeout_ms \div 1000
    /\ whois_sent' = whois_sent + 1
    /\ pc' = "sample"
    /\ UNCHANGED <<apdu_timeout_ms, bbmd_registered, current_seconds, total_seconds,
                   Error_Detected, Address_Cache, reportvars, exit_status,
                   session, delivered, received, polls, rxvars>>

\* line 281: current_seconds = time(NULL), the clock reading t
SampleAt(t) ==
    /\ pc = "sample"
    /\ current_seconds' = t
    /\ pc' = "receive"
    /\ UNCHANGED <<apdu_timeout_ms, bbmd_registered, timeout_seconds, last_seconds,
                   total_seconds, Error_Detected, Address_Cache, whois_sent,
                   reportvars, exit_status, session, histvars, rxvars>>

\* the wall clock may be set to any value between two readings
Sample == \E t \in 0..MaxClock : SampleAt(t)

\* a wall clock that never steps backwards: last_seconds is the previous reading
SampleForward == \E t \in last_seconds..MaxClock : SampleAt(t)

\* line 283: a datalink_receive that times out and returns 0 bytes
ReceiveIdle ==
    /\ pc = "receive"
    /\ pdu_len' = 0
    /\ polls' = IF polls < MaxPolls THEN polls + 1 ELSE polls
    /\ pc' = "process"
    /\ UNCHANGED <<apdu_timeout_ms, bbmd_registered, timevars, Error_Detected, Address_Cache,
                   whois_sent, reportvars, exit_status, session, Rx_Buf,
                   delivered, received, start_seconds>>

\* line 283: a datalink_receive that puts a datagram into Rx_Buf
ReceiveDatagram ==
    /\ pc = "receive"
    /\ received < MaxEvents
    /\ \E ev \in Events : Rx_Buf' = ev
    /\ pdu_len' = 1
    /\ received' = received + 1
    /\ polls' = IF polls < MaxPolls THEN polls + 1 ELSE polls
    /\ pc' = "process"
    /\ UNCHANGED <<apdu_timeout_ms, bbmd_registered, timevars, Error_Detected, Address_Cache,
                   whois_sent, reportvars, exit_status, session, delivered,
                   start_seconds>>

Process_noguard ==
    /\ pc = "process"
    /\ IF pdu_len # 0 \/ Rx_Buf # NoDatagram
       THEN LET r == npdu_handler(Address_Cache, Error_Detected, Rx_Buf) IN
            /\ Address_Cache' = r.cache
            /\ Error_Detected' = r.err
            /\ delivered' = Append(delivered, Rx_Buf)
       ELSE UNCHANGED <<Address_Cache, Error_Detected, delivered>>
    /\ pc' = "check"
    /\ UNCHANGED <<apdu_timeout_ms, bbmd_registered, timevars, whois_sent, reportvars,
                   exit_status, session, received, start_seconds, polls,
                   rxvars>>

Process_timeoutfirst ==
    /\ pc = "process"
    /\ IF pdu_len # 0
          /\ ~(total_seconds + (current_seconds - last_seconds) > timeout_seconds)
       THEN LET r == npdu_handler(Address_Cache, Error_Detected, Rx_Buf) IN
            /\ Address_Cache' = r.cache
            /\ Error_Detected' = r.err
            /\ delivered' = Append(delivered, Rx_Buf)
       ELSE UNCHANGED <<Address_Cache, Error_Detected, delivered>>
    /\ pc' = "check"
    /\ UNCHANGED <<apdu_timeout_ms, bbmd_registered, timevars, whois_sent, reportvars,
                   exit_status, session, received, start_seconds, polls,
                   rxvars>>

\* lines 285-287: if (pdu_len) npdu_handler(&src, &Rx_Buf[0], pdu_len)
Process ==
    /\ pc = "process"
    /\ IF pdu_len # 0
       THEN LET r == npdu_handler(Address_Cache, Error_Detected, Rx_Buf) IN
            /\ Address_Cache' = r.cache
            /\ Error_Detected' = r.err
            /\ delivered' = Append(delivered, Rx_Buf)
       ELSE UNCHANGED <<Address_Cache, Error_Detected, delivered>>
    /\ pc' = "check"
    /\ UNCHANGED <<apdu_timeout_ms, bbmd_registered, timevars, whois_sent, reportvars,
                   exit_status, session, received, start_seconds, polls,
                   rxvars>>

CheckError_timefirst ==
    /\ pc = "check"
    /\ IF total_seconds + (current_seconds - last_seconds) > timeout_seconds
       THEN pc' = "scan" /\ session' = "TimedOut"
       ELSE IF Error_Detected
       THEN pc' = "scan" /\ session' = "Aborted"
       ELSE pc' = "account" /\ session' = session
    /\ UNCHANGED <<apdu_timeout_ms, bbmd_registered, timevars, Error_Detected, Address_Cache,
                   whois_sent, reportvars, exit_status, histvars, rxvars>>

CheckError_skipreport ==
    /\ pc = "check"
    /\ IF Error_Detected
       THEN pc' = "print" /\ session' = "Aborted"
       ELSE pc' = "account" /\ session' = session
    /\ UNCHANGED <<apdu_timeout_ms, bbmd_registered, timevars, Error_Detected, Address_Cache,
                   whois_sent, reportvars, exit_status, histvars, rxvars>>

CheckError_nobreak ==
    /\ pc = "check"
    /\ IF Error_Detected
       THEN pc' = "account" /\ session' = "Aborted"
       ELSE pc' = "account" /\ session' = session
    /\ UNCHANGED <<apdu_timeout_ms, bbmd_registered, timevars, Error_Detected, Address_Cache,
                   whois_sent, reportvars, exit_status, histvars, rxvars>>

\* lines 288-289: if (Error_Detected) break
CheckError ==
    /\ pc = "check"
    /\ IF Error_Detected
       THEN pc' = "scan" /\ session' = "Aborted"
       ELSE pc' = "account" /\ session' = session
    /\ UNCHANGED <<apdu_timeout_ms, bbmd_registered, timevars, Error_Detected, Address_Cache,
                   whois_sent, reportvars, exit_status, histvars, rxvars>>

Account_noaccum ==
    /\ pc = "account"
    /\ LET elapsed_seconds == current_seconds - last_seconds IN
       /\ total_seconds' = elapsed_seconds
       /\ IF elapsed_seconds > timeout_seconds
          THEN /\ pc' = "scan" /\ session' = "TimedOut"
               /\ last_seconds' = last_seconds
          ELSE /\ pc' = "sample" /\ session' = session
               /\ last_seconds' = current_seconds
    /\ UNCHANGED <<apdu_timeout_ms, bbmd_registered, timeout_seconds, current_seconds,
                   Error_Detected, Address_Cache, whois_sent, reportvars,
                   exit_status, histvars, rxvars>>

Account_keeplast ==
    /\ pc = "account"
    /\ LET elapsed_seconds == current_seconds - last_seconds IN
       /\ total_seconds' = total_seconds + elapsed_seconds
       /\ IF total_seconds + elapsed_seconds > timeout_seconds
          THEN /\ pc' = "scan" /\ session' = "TimedOut"
          ELSE /\ pc' = "sample" /\ session' = session
       /\ last_seconds' = last_seconds
    /\ UNCHANGED <<apdu_timeout_ms, bbmd_registered, timeout_seconds, current_seconds,
                   Error_Detected, Address_Cache, whois_sent, reportvars,
                   exit_status, histvars, rxvars>>

Account_ge ==
    /\ pc = "account"
    /\ LET elapsed_seconds == current_seconds - last_seconds IN
       /\ total_seconds' = total_seconds + elapsed_seconds
       /\ IF total_seconds + elapsed_seconds >= timeout_seconds
          THEN /\ pc' = "scan" /\ session' = "TimedOut"
               /\ last_seconds' = last_seconds
          ELSE /\ pc' = "sample" /\ session' = session
               /\ last_seconds' = current_seconds
    /\ UNCHANGED <<apdu_timeout_ms, bbmd_registered, timeout_seconds, current_seconds,
                   Error_Detected, Address_Cache, whois_sent, reportvars,
                   exit_status, histvars, rxvars>>

Account_resend ==
    /\ pc = "account"
    /\ LET elapsed_seconds == current_seconds - last_seconds IN
       /\ total_seconds' = total_seconds + elapsed_seconds
       /\ IF total_seconds + elapsed_seconds > timeout_seconds
          THEN /\ pc' = "scan" /\ session' = "TimedOut"
               /\ last_seconds' = last_seconds
               /\ whois_sent' = whois_sent
          ELSE /\ pc' = "sample" /\ session' = session
               /\ last_seconds' = current_seconds
               /\ whois_sent' = IF delivered = <<>> /\ whois_sent < 2
                                THEN whois_sent + 1 ELSE whois_sent
    /\ UNCHANGED <<apdu_timeout_ms, bbmd_registered, timeout_seconds, current_seconds,
                   Error_Detected, Address_Cache, reportvars,
                   exit_status, histvars, rxvars>>

\* lines 291-301: accumulate the elapsed seconds, break on timeout
Account ==
    /\ pc = "account"
    /\ LET elapsed_seconds == current_seconds - last_seconds IN
       /\ total_seconds' = total_seconds + elapsed_seconds
       /\ IF total_seconds + elapsed_seconds > timeout_seconds
          THEN /\ pc' = "scan" /\ session' = "TimedOut"
               /\ last_seconds' = last_seconds
          ELSE /\ pc' = "sample" /\ session' = session
               /\ last_seconds' = current_seconds
    /\ UNCHANGED <<apdu_timeout_ms, bbmd_registered, timeout_seconds, current_seconds,
                   Error_Detected, Address_Cache, whois_sent, reportvars,
                   exit_status, histvars, rxvars>>

ScanSlot_countall ==
    /\ pc = "scan"
    /\ IF i < MAX_ADDRESS_CACHE
       THEN /\ IF address_get_by_index(Address_Cache, i)
               THEN device_id_array' =
                        [device_id_array EXCEPT ![k] = Address_Cache[i].device_id]
               ELSE UNCHANGED device_id_array
            /\ k' = k + 1
            /\ i' = i + 1
            /\ pc' = pc
       ELSE /\ pc' = "print"
            /\ UNCHANGED <<device_id_array, k, i>>
    /\ UNCHANGED <<apdu_timeout_ms, bbmd_registered, timevars, Error_Detected, Address_Cache,
                   whois_sent, l, out, exit_status, session, histvars, rxvars>>

ScanSlot_slot0 ==
    /\ pc = "scan"
    /\ IF i < MAX_ADDRESS_CACHE
       THEN /\ IF address_get_by_index(Address_Cache, i)
               THEN /\ device_id_array' =
                          [device_id_array EXCEPT ![k] = Address_Cache[0].device_id]
                    /\ k' = k + 1
               ELSE UNCHANGED <<device_id_array, k>>
            /\ i' = i + 1
            /\ pc' = pc
       ELSE /\ pc' = "print"
            /\ UNCHANGED <<device_id_array, k, i>>
    /\ UNCHANGED <<apdu_timeout_ms, bbmd_registered, timevars, Error_Detected, Address_Cache,
                   whois_sent, l, out, exit_status, session, histvars, rxvars>>

\* lines 314-332: one pass of the scan over the cache slots
ScanSlot ==
    /\ pc = "scan"
    /\ IF i < MAX_ADDRESS_CACHE
       THEN /\ IF address_get_by_index(Address_Cache, i)
               THEN /\ device_id_array' =
                          [device_id_array EXCEPT ![k] = Address_Cache[i].device_id]
                    /\ k' = k + 1
               ELSE UNCHANGED <<device_id_array, k>>
            /\ i' = i + 1
            /\ pc' = pc
       ELSE /\ pc' = "print"
            /\ UNCHANGED <<device_id_array, k, i>>
    /\ UNCHANGED <<apdu_timeout_ms, bbmd_registered, timevars, Error_Detected, Address_Cache,
                   whois_sent, l, out, exit_status, session, histvars, rxvars>>

PrintLine_exitfail ==
    /\ pc = "print"
    /\ IF l < k
       THEN /\ out' = Append(out, device_id_array[l])
            /\ l' = l + 1
            /\ pc' = pc
            /\ exit_status' = exit_status
       ELSE /\ pc' = "done"
            /\ exit_status' = IF Error_Detected THEN 1 ELSE 0
            /\ UNCHANGED <<out, l>>
    /\ UNCHANGED <<apdu_timeout_ms, bbmd_registered, timevars, Error_Detected, Address_Cache,
                   whois_sent, i, k, device_id_array, session, histvars, rxvars>>

PrintLine_reversed ==
    /\ pc = "print"
    /\ IF l < k
       THEN /\ out' = Append(out, device_id_array[k - 1 - l])
            /\ l' = l + 1
            /\ pc' = pc
            /\ exit_status' = exit_status
       ELSE /\ pc' = "done"
            /\ exit_status' = 0
            /\ UNCHANGED <<out, l>>
    /\ UNCHANGED <<apdu_timeout_ms, bbmd_registered, timevars, Error_Detected, Address_Cache,
                   whois_sent, i, k, device_id_array, session, histvars, rxvars>>

\* lines 348-354: one pass of the print loop, then return 0
PrintLine ==
    /\ pc = "print"
    /\ IF l < k
       THEN /\ out' = Append(out, device_id_array[l])
            /\ l' = l + 1
            /\ pc' = pc
            /\ exit_status' = exit_status
       ELSE /\ pc' = "done"
            /\ exit_status' = 0
            /\ UNCHANGED <<out, l>>
    /\ UNCHANGED <<apdu_timeout_ms, bbmd_registered, timevars, Error_Detected, Address_Cache,
                   whois_sent, i, k, device_id_array, session, histvars, rxvars>>

Next ==
    \/ Setup
    \/ Configure
    \/ Sample
    \/ ReceiveIdle
    \/ ReceiveDatagram
    \/ Process
    \/ CheckError
    \/ Account
    \/ ScanSlot
    \/ PrintLine

Spec == Init /\ [][Next]_vars

NextForward ==
    \/ Setup
    \/ Configure
    \/ SampleForward
    \/ ReceiveIdle
    \/ ReceiveDatagram
    \/ Process
    \/ CheckError
    \/ Account
    \/ ScanSlot
    \/ PrintLine

\* the same program under a clock that never steps backwards
SpecForward == Init /\ [][NextForward]_vars

\* a clock reading later than the previous one
SampleAdvance == \E t \in (last_seconds + 1)..MaxClock : SampleAt(t)

\* the program keeps running (every receive returns) and the clock, which
\* never steps backwards, keeps advancing
SpecFair ==
    /\ Init /\ [][NextForward]_vars
    /\ WF_vars(NextForward)
    /\ SF_vars(SampleAdvance)

TypeOK ==
    /\ pc \in {"setup", "configure", "sample", "receive", "process", "check", "account",
               "scan", "print", "done", "exit1"}
    /\ session \in {"Running", "TimedOut", "Aborted"}
    /\ Error_Detected \in BOOLEAN
    /\ bbmd_registered \in BOOLEAN
    /\ Len(out) <= MAX_ADDRESS_CACHE + 1
    /\ k \in 0..MAX_ADDRESS_CACHE /\ i \in 0..MAX_ADDRESS_CACHE
    /\ Len(delivered) <= MaxEvents
    /\ polls \in 0..MaxPolls
    /\ received \in 0..MaxEvents
    /\ pdu_len \in {0, 1}
(* ------------------------- derived quantities -------------------------- *)
RECURSIVE CacheIdsUpTo(_, _)
\* device ids of the valid entries in slots 0..n-1, in slot order
CacheIdsUpTo(cache, n) ==
    IF n = 0 THEN <<>>
    ELSE IF cache[n - 1].valid
         THEN Append(CacheIdsUpTo(cache, n - 1), cache[n - 1].device_id)
         ELSE CacheIdsUpTo(cache, n - 1)

\* the report: the lines on stdout after the line Init_DataLink may print
Reported == IF bbmd_registered THEN Tail(out) ELSE out

CacheIds == CacheIdsUpTo(Address_Cache, MAX_ADDRESS_CACHE)
CacheSize == Cardinality({s \in Slots : Address_Cache[s].valid})

Range(s) == {s[n] : n \in 1..Len(s)}
NoDuplicates(s) == \A m, n \in 1..Len(s) : s[m] = s[n] => m = n

RECURSIVE FirstIds(_)
\* the device ids of the I-Am events of a log, each at its first occurrence
FirstIds(log) ==
    IF log = <<>> THEN <<>>
    ELSE LET r == FirstIds(SubSeq(log, 1, Len(log) - 1))
             e == log[Len(log)]
         IN IF e.kind = "IAm" /\ e.device_id \notin Range(r)
            THEN Append(r, e.device_id) ELSE r

Take(s, n) == SubSeq(s, 1, IF Len(s) < n THEN Len(s) ELSE n)

Kinds(log) == {log[n].kind : n \in 1..Len(log)}
Fatal(log) == Kinds(log) \cap {"Abort", "Reject"} # {}
InLoop == pc \in {"sample", "receive", "process", "check", "account"}
Started == pc \notin {"setup", "configure", "exit1"}

(* ------------------------------ claims --------------------------------- *)

\* C1: Abort preserves partial results.  When a session that received an
\* Abort or Reject has finished, its state is Aborted and the printed lines
\* are the device ids of the valid cache entries, in slot (discovery) order.
C1_AbortPreservesPartial ==
    (pc = "done" /\ Fatal(delivered)) =>
        /\ session = "Aborted"
        /\ Reported = CacheIds
        /\ Len(Reported) = CacheSize

C1_Witness ==
    /\ pc = "done"
    /\ Len(delivered) = 3
    /\ delivered[1].kind = "IAm" /\ delivered[1].device_id = 10
    /\ delivered[2].kind = "IAm" /\ delivered[2].device_id = 20
    /\ delivered[3].kind = "Abort"
    /\ Reported = <<10, 20>>
    /\ session = "Aborted"

\* C2: Fatal monotonicity.  The flag starts false, every dispatched Abort or
\* Reject leaves it true, and no step takes it from true to false.
C2_FatalMonotonic ==
    /\ Error_Detected = FALSE
    /\ [][/\ Error_Detected => Error_Detected'
          /\ (delivered' # delivered
               /\ delivered'[Len(delivered')].kind \in {"Abort", "Reject"})
              => Error_Detected']_vars

C2_Witness ==
    /\ Error_Detected
    /\ pc = "done"
    /\ Kinds(delivered) = {"IAm", "Reject"}
\* C3 as stated: with a zero budget and no inbound datagram the session has
\* left Running once more than two polls were made.
C3_TwoPollsSuffice ==
    (Started /\ timeout_seconds = 0 /\ received = 0 /\ polls > 2)
        => session # "Running"

\* C3 (amended): with a zero budget and no inbound datagram the session stays
\* Running while the accumulated whole-second total is not above 0, however
\* many idle polls that takes, and leaves the loop as TimedOut (never
\* Aborted) in the iteration that brings the total above 0, printing nothing.
C3_ZeroBudget ==
    (Started /\ timeout_seconds = 0 /\ received = 0) =>
        /\ session # "Aborted"
        /\ InLoop => (session = "Running" /\ total_seconds <= 0)
        /\ ~InLoop => (session = "TimedOut" /\ total_seconds > 0)
        /\ Reported = <<>>
        /\ k = 0

C3_Witness ==
    /\ pc = "done"
    /\ timeout_seconds = 0
    /\ received = 0
    /\ polls > 2
    /\ session = "TimedOut"
    /\ Reported = <<>>

\* C4: Unrecognized-service tolerance.  While every datagram received was an
\* unrecognized-service event the flag is false and the session is not
\* Aborted, and such a session finishes TimedOut with nothing printed.
C4_UnrecTolerated ==
    (Started /\ Kinds(delivered) \subseteq {"Unrec"}) =>
        /\ ~Error_Detected
        /\ session # "Aborted"
        /\ pc = "done" => (session = "TimedOut" /\ Reported = <<>>)

C4_Witness ==
    /\ pc = "done"
    /\ Len(delivered) >= 2
    /\ Kinds(delivered) = {"Unrec"}
    /\ session = "TimedOut"

\* C5: Insert-once.  When the distinct device ids announced so far fit the
\* cache, the cache holds exactly one entry per distinct id, and neither the
\* cache nor the printed list names a device twice; the finished report has
\* one line per distinct id.
C5_InsertOnce ==
    LET distinct == Range(FirstIds(delivered)) IN
    Cardinality(distinct) <= MAX_ADDRESS_CACHE =>
        /\ CacheSize = Cardinality(distinct)
        /\ Range(CacheIds) = distinct
        /\ NoDuplicates(CacheIds)
        /\ NoDuplicates(Reported)
        /\ pc = "done" => Len(Reported) = Cardinality(distinct)

C5_Witness ==
    /\ pc = "done"
    /\ Len(delivered) = 3
    /\ Kinds(delivered) = {"IAm"}
    /\ delivered[1].device_id = delivered[3].device_id
    /\ delivered[1].device_id # delivered[2].device_id
    /\ CacheSize = 2
    /\ Len(Reported) = 2

\* C6: Order preservation.  The printed list is, line by line, the list of
\* device ids in the order of their first I-Am event (up to the capacity of
\* the cache), whatever duplicates or other events came in between.
C6_OrderPreserved ==
    LET expected == Take(FirstIds(delivered), MAX_ADDRESS_CACHE) IN
    /\ pc \in {"print", "done"} => Reported = Take(expected, l)
    /\ pc = "done" => Reported = expected

C6_Witness ==
    /\ pc = "done"
    /\ Len(delivered) = 3
    /\ delivered[1].kind = "IAm" /\ delivered[1].device_id = 20
    /\ delivered[2].kind \in {"Unrec", "IAm"}
    /\ delivered[2].device_id \in {0, 20}
    /\ delivered[3].kind = "IAm" /\ delivered[3].device_id = 10
    /\ bbmd_registered
    /\ out = <<BbmdLine, 20, 10>>
    /\ Reported = <<20, 10>>

\* C7: Capacity saturation.  Once more distinct devices than the cache has
\* slots have announced themselves, the cache holds exactly the first
\* MAX_ADDRESS_CACHE distinct ids in arrival order; the drop sets no flag and
\* ends no session, and the session finishes with exit status 0 and those
\* ids printed.
C7_CapacitySaturation ==
    LET firsts == FirstIds(delivered) IN
    /\ CacheSize <= MAX_ADDRESS_CACHE
    /\ Len(firsts) > MAX_ADDRESS_CACHE =>
        /\ CacheSize = MAX_ADDRESS_CACHE
        /\ CacheIds = Take(firsts, MAX_ADDRESS_CACHE)
        /\ ~Fatal(delivered) => (~Error_Detected /\ session # "Aborted")
        /\ pc = "done" => (exit_status = 0 /\ Len(Reported) = MAX_ADDRESS_CACHE)

C7_Witness ==
    /\ pc = "done"
    /\ Len(FirstIds(delivered)) = MAX_ADDRESS_CACHE + 1
    /\ CacheSize = MAX_ADDRESS_CACHE
    /\ session = "TimedOut"
    /\ exit_status = 0

\* C8: A record is immutable once inserted.  No step changes or removes a
\* valid cache entry; in particular an I-Am for a device already present
\* leaves its stored address and max APDU as they were.
C8_RecordImmutable ==
    [][\A s \in Slots :
          Address_Cache[s].valid => Address_Cache'[s] = Address_Cache[s]]_vars

C8_Witness ==
    /\ Len(delivered) >= 2
    /\ delivered[1].kind = "IAm" /\ delivered[2].kind = "IAm"
    /\ delivered[1].device_id = delivered[2].device_id
    /\ delivered[1].mac # delivered[2].mac
    /\ Address_Cache[0].valid
    /\ Address_Cache[0].mac = delivered[1].mac
    /\ Address_Cache[0].max_apdu = delivered[1].max_apdu
    /\ CacheSize = 1

\* C9: Exactly one broadcast.  No Who-Is is sent before the configuration
\* step, exactly one has been sent from then on (so before the first
\* receive), and a finished session that received nothing printed nothing.
C9_OneBroadcast ==
    /\ pc \in {"setup", "configure", "exit1"} => (whois_sent = 0 /\ polls = 0)
    /\ Started => whois_sent = 1
    /\ (pc = "done" /\ received = 0) => Reported = <<>>

C9_Witness ==
    /\ pc = "done"
    /\ received = 0
    /\ polls >= 2
    /\ whois_sent = 1
    /\ Reported = <<>>

\* C10: Session state machine.  The session starts Running; its state only
\* changes from Running to TimedOut or Aborted; after that no receive,
\* dispatch or time accounting happens; lines are printed only in a terminal
\* state, by appending; and nothing happens once main has returned.
C10_StateMachine ==
    /\ session = "Running"
    /\ [][/\ session' # session =>
               (session = "Running" /\ session' \in {"TimedOut", "Aborted"})
          /\ session # "Running" =>
               UNCHANGED <<session, delivered, received, polls, rxvars,
                           Address_Cache, Error_Detected, timevars, whois_sent>>
          /\ session = "Running" => Reported' = <<>>
          /\ Reported' # Reported => (l < k /\ Reported' = Append(Reported, device_id_array[l]))
          /\ pc' = "done" => (l = k /\ Len(Reported') = k /\ k = CacheSize)
          /\ pc # "done"]_vars

C10_Witness ==
    /\ pc = "done"
    /\ session = "Aborted"
    /\ Len(Reported) = 2
    /\ polls >= 2
\* C11: Exit-status convention.  main returns 0 exactly when it has printed
\* its report, in either terminal state; the only other exit is exit(1) when
\* the datalink could not be initialised, and then no Who-Is was sent,
\* nothing was received and nothing was printed.
C11_ExitStatus ==
    /\ exit_status \in {-1, 0, 1}
    /\ exit_status = 0 <=> pc = "done"
    /\ exit_status = 1 <=> pc = "exit1"
    /\ pc = "done" => session \in {"TimedOut", "Aborted"}
    /\ pc = "exit1" =>
         /\ whois_sent = 0 /\ polls = 0 /\ received = 0
         /\ out = <<>> /\ ~bbmd_registered /\ session = "Running"

C11_Witness ==
    /\ pc = "done"
    /\ session = "Aborted"
    /\ Error_Detected
    /\ bbmd_registered
    /\ out = <<BbmdLine>>
    /\ exit_status = 0

\* C12: Only Identification mutates the cache.  A step that changes the
\* address cache is the dispatch of an I-Am; a step that changes the fatal
\* flag is the dispatch of an Abort or Reject.  So Abort, Reject,
\* unrecognized-service, ReadProperty and other events and idle polls leave
\* the cache as it is, and I-Am, unrecognized-service, ReadProperty and idle
\* polls leave the flag.
C12_OnlyIAmMutatesCache ==
    [][/\ Address_Cache' # Address_Cache =>
            /\ pc = "process" /\ pdu_len # 0
            /\ Rx_Buf.kind = "IAm"
            /\ delivered' = Append(delivered, Rx_Buf)
       /\ Error_Detected' # Error_Detected =>
            /\ pc = "process" /\ pdu_len # 0
            /\ Rx_Buf.kind \in {"Abort", "Reject"}
            /\ delivered' = Append(delivered, Rx_Buf)]_vars

C12_Witness ==
    /\ pc = "done"
    /\ Len(delivered) = 3
    /\ delivered[1].kind = "IAm"
    /\ delivered[2].kind = "ReadProp"
    /\ delivered[3].kind = "Other"
    /\ polls > 0
    /\ CacheSize = 1
    /\ Reported = <<delivered[1].device_id>>
    /\ ~Error_Detected

\* C13: Abort is observed in the same iteration.  Once the flag is set the
\* loop is at its fatal check or behind it, the check leaves the loop as
\* Aborted, and from then on nothing is received, dispatched or inserted.
C13_AbortSameIteration ==
    /\ [](Error_Detected => pc \in {"check", "scan", "print", "done"})
    /\ [][/\ (Error_Detected /\ pc = "check") =>
               (pc' = "scan" /\ session' = "Aborted")
          /\ Error_Detected =>
               UNCHANGED <<Address_Cache, delivered, received, polls, rxvars>>]_vars

C13_Witness ==
    /\ pc = "done"
    /\ session = "Aborted"
    /\ Len(delivered) = 2
    /\ delivered[1].kind = "IAm"
    /\ delivered[2].kind = "Abort"
    /\ received = 2
    /\ Reported = <<delivered[1].device_id>>

\* C14: Timeout is strict.  The session becomes TimedOut only in a step that
\* brings the accumulated total strictly above timeout_seconds; while it is
\* Running in the loop the total is at most the budget; so at a timeout the
\* last clock reading is more than timeout_seconds after the first.
C14_TimeoutStrict ==
    /\ [](session = "TimedOut" =>
            /\ total_seconds > timeout_seconds
            /\ current_seconds - start_seconds > timeout_seconds)
    /\ []((InLoop /\ Started) =>
            (session = "Running" /\ total_seconds <= timeout_seconds))
    /\ [][session' # session /\ session' = "TimedOut" =>
            (pc = "account" /\ ~Error_Detected
             /\ total_seconds' > timeout_seconds)]_vars

C14_Witness ==
    /\ pc = "sample"
    /\ timeout_seconds = 1
    /\ total_seconds = 1
    /\ polls >= 2
    /\ session = "Running"

\* C15: Abort takes precedence over timeout.  A session whose flag is set
\* leaves the loop as Aborted, also when the elapsed time of that iteration
\* would have brought the total above the budget: that time is never
\* accumulated.
C15_AbortBeforeTimeout ==
    /\ (Error_Detected /\ pc \in {"scan", "print", "done"}) => session = "Aborted"
    /\ session = "Aborted" =>
         (Error_Detected /\ total_seconds <= timeout_seconds
          /\ total_seconds = last_seconds - start_seconds)

C15_Witness ==
    /\ session = "Aborted"
    /\ pc = "done"
    /\ total_seconds + (current_seconds - last_seconds) > timeout_seconds
    /\ current_seconds > last_seconds
\* C16: Termination.  When every receive returns and the clock keeps
\* advancing without stepping backwards, a session that has started leaves
\* Running for TimedOut or Aborted and then reports and returns, whatever
\* datagrams arrive.
C16_Terminates ==
    (pc = "configure") ~>
        (pc = "done" /\ session \in {"TimedOut", "Aborted"} /\ exit_status = 0)

C16_Witness ==
    /\ pc = "done"
    /\ session = "TimedOut"
    /\ timeout_seconds = 1
    /\ received = MaxEvents
    /\ polls = MaxPolls
    /\ exit_status = 0
\* number of datagrams received but not yet handed to npdu_handler
Pending == IF pc = "process" /\ pdu_len # 0 THEN 1 ELSE 0

\* C17: One datagram per iteration, in delivery order.  A receive happens
\* only right after the clock was sampled and returns at most one datagram;
\* that datagram is handed to npdu_handler, once, as the next step, so the
\* dispatched sequence grows by exactly the datagram in Rx_Buf, and Rx_Buf
\* is only overwritten when every datagram received so far was dispatched.
C17_OnePerIteration ==
    /\ [](Len(delivered) + Pending = received)
    /\ [][/\ pc' = "receive" => pc = "sample"
          /\ pc = "receive" => pc' = "process"
          /\ received' # received =>
               (pc = "receive" /\ received' = received + 1 /\ pdu_len' # 0)
          /\ delivered' # delivered =>
               (pc = "process" /\ pdu_len # 0 /\ pc' = "check"
                /\ delivered' = Append(delivered, Rx_Buf))
          /\ Rx_Buf' # Rx_Buf =>
               (pc = "receive" /\ Len(delivered) = received)]_vars

C17_Witness ==
    /\ pc = "process"
    /\ pdu_len = 0
    /\ received = 2
    /\ Len(delivered) = 2
    /\ delivered[1].kind = "IAm" /\ delivered[1].device_id = 20
    /\ delivered[2].kind = "IAm" /\ delivered[2].device_id = 10
    /\ Rx_Buf = delivered[2]
    /\ CacheIds = <<20, 10>>
\* C18: The accumulator telescopes.  After every completed iteration the
\* total equals the clock reading of that iteration minus the reading taken
\* before the broadcast (so it falls when the clock steps backwards), and
\* the session has timed Reported exactly when that reading is later than the
\* first reading plus the budget.
C18_Telescoping ==
    Started =>
      LET latest == IF session = "TimedOut" THEN current_seconds
                    ELSE last_seconds
      IN /\ total_seconds = latest - start_seconds
         /\ session = "TimedOut" => latest > start_seconds + timeout_seconds
         /\ session # "TimedOut" => latest <= start_seconds + timeout_seconds

C18_Witness ==
    /\ pc = "sample"
    /\ polls >= 2
    /\ last_seconds < start_seconds
    /\ total_seconds < 0

\* C19: The datagram of the last iteration is not lost.  The clock is read
\* before the receive, so when the loop ends by timeout in an iteration that
\* received a datagram, that datagram was dispatched first: it is the last
\* entry of the dispatched sequence, nothing received is left undispatched,
\* and an I-Am among them is in the cache and in the finished report under
\* the same insert rule as any earlier one.
C19_FinalDatagramDispatched ==
    (session = "TimedOut" /\ pdu_len # 0) =>
        /\ received = Len(delivered)
        /\ delivered # <<>>
        /\ delivered[Len(delivered)] = Rx_Buf
        /\ CacheIds = Take(FirstIds(delivered), MAX_ADDRESS_CACHE)
        /\ pc = "done" => Reported = Take(FirstIds(delivered), MAX_ADDRESS_CACHE)

C19_Witness ==
    /\ pc = "done"
    /\ session = "TimedOut"
    /\ pdu_len # 0
    /\ Rx_Buf.kind = "IAm" /\ Rx_Buf.device_id = 20
    /\ Len(delivered) = 2
    /\ delivered[1].kind = "IAm" /\ delivered[1].device_id = 10
    /\ Reported = <<10, 20>>

\* C20: The scan index stays in bounds.  During the scan k never exceeds the
\* number of slots scanned, so every write to device_id_array is inside the
\* array; k counts the valid entries among the slots scanned and the array
\* holds their ids in slot order; the finished report has one line per valid
\* entry, in slot order.
C20_ScanIndex ==
    /\ 0 <= k /\ k <= i /\ i <= MAX_ADDRESS_CACHE
    /\ l <= k
    /\ (pc = "scan" /\ i < MAX_ADDRESS_CACHE) => k \in Slots
    /\ k = Len(CacheIdsUpTo(Address_Cache, i))
    /\ \A n \in Slots :
         device_id_array[n] =
             IF n < k THEN CacheIdsUpTo(Address_Cache, i)[n + 1] ELSE Unset
    /\ pc \in {"print", "done"} => (i = MAX_ADDRESS_CACHE /\ k = CacheSize)
    /\ pc = "done" => (Len(Reported) = CacheSize /\ Reported = CacheIds)

C20_Witness ==
    /\ pc = "done"
    /\ k = MAX_ADDRESS_CACHE
    /\ i = MAX_ADDRESS_CACHE
    /\ Len(Reported) = MAX_ADDRESS_CACHE
    /\ Len(FirstIds(delivered)) > MAX_ADDRESS_CACHE
====
